---- MODULE Spec2Model ----
(***************************************************************************)
(* CEO Execution OS: the record store (daily logs, projects, decisions),   *)
(* the metrics engine of src/core/metrics.py, the circuit-breaker          *)
(* evaluator, and the CLI commands that write the store.                   *)
(*                                                                         *)
(* Dates are day numbers counted from a Monday, so that Python's           *)
(* date.weekday() (Monday = 0) is d % 7.  A NULL column is the string NULL.*)
(* completion_rate, a Python float, is kept as the exact fraction it       *)
(* rounds: with at most 7 logs in a week, equal fractions give equal       *)
(* floats and different fractions differ by far more than a rounding step. *)
(***************************************************************************)
EXTENDS Integers, Sequences, FiniteSets, TLC

VARIABLES
    today,      \* date.today(): the wall-clock date the commands read
    logs,       \* table daily_logs, rows in insertion (rowid) order
    projects,   \* table projects, rows in insertion (rowid) order
    decisions,  \* table decisions, rows in insertion order
    flag,       \* the file ~/.ceo-os/.circuit_breaker_active
    out,        \* what the last command or query returned / how it exited
    pc          \* position of the test function of SpecFixture ("cli" elsewhere)

vars == <<today, logs, projects, decisions, flag, out, pc>>

----------------------------------------------------------------------------
(* Bounds of the model *)

\* the commands run on the days FirstDay .. FirstDay + MaxDays
MaxDays == 1
\* projects that may leave the active status (shipped or killed); with the
\* cap this bounds the rows of the projects table
MaxFinished == 1
\* SpecEval: logs of a week whose mission shipped / that are of another kind
MaxShipped == 3
MaxOther == 2
\* SpecEval: length of the run of old paralysis logs around the 30-day cutoff
OldRun == 4
\* SpecEval: get_week_stats is asked for the weeks 0 .. MaxWeeksAgo
MaxWeeksAgo == 1

\* SpecStats: rows of the decisions table
MaxDecisions == 2
\* SpecWeek: get_week_start is asked for dates up to this many weeks after FirstDay
MaxWeeksAhead == 2
\* SpecRace: invocations of project add running at the same time
MaxProcs == 2

\* a Monday, five weeks after day 0, so that every window lies on days >= 0
FirstDay == 5 * 7

----------------------------------------------------------------------------
(* Values *)

NULL == "NULL"
NoDate == 0 - 1

\* hard cap on active projects (metrics.py: active_count < 3)
ProjectCap == 3
\* "more than 5" instead of "5 or more"
ParalysisEpisodes_more_than == 5 + 1
\* recursion bound of get_week_stats (weeks_ago < 12)
TrendWeeks == 12
\* thresholds of check_circuit_breaker_conditions
ParalysisEpisodes == 5
CompletionThreshold == 60
ParalysisWindow == 30
StalledProjects == 3

RECURSIVE GCD(_, _)
GCD(a, b) == IF b = 0 THEN a ELSE GCD(b, a % b)

\* the factor 100 forgotten
Percent_without_factor(n, d) ==
    LET g == GCD(n, d)
    IN  [num |-> n \div g, den |-> d \div g]

\* the float n / d * 100 as a fraction in lowest terms (d > 0)
Percent(n, d) ==
    LET g == GCD(100 * n, d)
    IN  [num |-> (100 * n) \div g, den |-> d \div g]

\* a week without missions taken as a full week (else 100)
ZeroRate_full == [num |-> 100, den |-> 1]

\* the int 0 that the code uses when the denominator is 0
ZeroRate == [num |-> 0, den |-> 1]

RateLess_or_equal(r, n) == r.num <= n * r.den
RateLess(r, n) == r.num < n * r.den
RateGreater(r, s) == r.num * s.den > s.num * r.den

\* f"{rate:.0f}": the nearest integer (no fraction of at most 7 logs is a tie)
FormatRate(r) == (2 * r.num + r.den) \div (2 * r.den)

\* len([x for x in s if Test(x)])
Count(s, Test(_)) == Len(SelectSeq(s, Test))

----------------------------------------------------------------------------
(* src/core/models.py *)

\* DailyLog(...): columns not given are NULL, paralysis_signals defaults to False
DailyLog(date, paralysis_signals, mission, mission_status) ==
    [date |-> date, paralysis_signals |-> paralysis_signals, mission |-> mission,
     mission_status |-> mission_status, blocker_type |-> NULL]

\* Project(name=..., target_date=..., status=...)
Project(id, name, target_date, status) ==
    [id |-> id, name |-> name, target_date |-> target_date, status |-> status,
     shipped_early |-> NULL, completed_at |-> NoDate]

\* the <name> argument of project add: the user gives the n-th project of the
\* table a name of its own
ProjectName(n) == [project |-> n]

\* generate_uuid: the id of the n-th row; the values are fixed so that some ids
\* share their first character and a one-character prefix can match several rows
generate_uuid(n) == <<1 + (n % 2), n>>

\* a NULL time_to_decide (the recorded times are minutes, never negative)
NoTime == 0 - 1
\* the 20-minute rule of Decision.under_20_minutes
TwentyMinutes == 20

\* Decision(date=..., time_to_decide=..., made_under_paralysis=...)
Decision(date, time_to_decide, made_under_paralysis) ==
    [date |-> date, time_to_decide |-> time_to_decide,
     made_under_paralysis |-> made_under_paralysis]

\* Decision.under_20_minutes
under_20_minutes(d) == d.time_to_decide # NoTime /\ d.time_to_decide <= TwentyMinutes

----------------------------------------------------------------------------
(* src/core/metrics.py *)

\* the week taken to start on Sunday
get_week_start_sunday(target_date) ==
    LET days_since_sunday == (target_date + 1) % 7
    IN  target_date - days_since_sunday

get_week_start(target_date) ==
    LET days_since_monday == target_date % 7
    IN  target_date - days_since_monday

\* the date filter forgotten: the latest log, of whatever day
get_today_status_latest(L, t) ==
    IF L = <<>> THEN <<>> ELSE <<L[Len(L)]>>

\* session.query(DailyLog).filter(DailyLog.date == today).first():
\* an Optional, here the empty sequence (None) or the one-element sequence
get_today_status(L, t) ==
    LET found == SelectSeq(L, LAMBDA log : log.date = t)
    IN  IF found = <<>> THEN <<>> ELSE <<Head(found)>>

\* improving on equal rates too (>= for >)
RECURSIVE get_week_stats_not_worse(_, _, _)
get_week_stats_not_worse(L, t, weeks_ago) ==
    LET target_week_start == get_week_start(t) - 7 * weeks_ago
        week_end == target_week_start + 6
        week_logs == SelectSeq(L, LAMBDA log :
                        log.date >= target_week_start /\ log.date <= week_end)
        total == Count(week_logs, LAMBDA log : log.mission # NULL)
        shipped == Count(week_logs, LAMBDA log : log.mission_status = "shipped")
        completion_rate == IF total > 0 THEN Percent(shipped, total) ELSE ZeroRate
        prev == get_week_stats_not_worse(L, t, weeks_ago + 1).completion_rate
        improving ==
            IF weeks_ago < TrendWeeks
            THEN ~RateGreater(prev, completion_rate)
            ELSE FALSE
    IN  [shipped |-> shipped, total |-> total, completion_rate |-> completion_rate,
         improving |-> improving, week_start |-> target_week_start]

RECURSIVE get_week_stats(_, _, _)
get_week_stats(L, t, weeks_ago) ==
    LET target_week_start == get_week_start(t) - 7 * weeks_ago
        week_end == target_week_start + 6
        week_logs == SelectSeq(L, LAMBDA log :
                        log.date >= target_week_start /\ log.date <= week_end)
        total == Count(week_logs, LAMBDA log : log.mission # NULL)
        shipped == Count(week_logs, LAMBDA log : log.mission_status = "shipped")
        completion_rate == IF total > 0 THEN Percent(shipped, total) ELSE ZeroRate
        improving ==
            IF weeks_ago < TrendWeeks
            THEN RateGreater(completion_rate,
                             get_week_stats(L, t, weeks_ago + 1).completion_rate)
            ELSE FALSE
    IN  [shipped |-> shipped, total |-> total, completion_rate |-> completion_rate,
         improving |-> improving, week_start |-> target_week_start]

\* only the logs that carry a mission are counted
\* the weeks whose logs get_week_stats(session, weeks_ago) queries: its own,
\* then those of the recursive calls
RECURSIVE get_week_stats_weeks(_)
get_week_stats_weeks(weeks_ago) ==
    {weeks_ago} \cup (IF weeks_ago < TrendWeeks
                      THEN get_week_stats_weeks(weeks_ago + 1) ELSE {})

\* only the logs that carry a mission are counted
get_paralysis_rate_of_missions(L, t, days) ==
    LET cutoff == t - days
        window == SelectSeq(L, LAMBDA log : log.date >= cutoff /\ log.mission # NULL)
        total_days == Len(window)
        paralysis_days == Count(window, LAMBDA log : log.paralysis_signals)
        rate == IF total_days > 0 THEN Percent(paralysis_days, total_days) ELSE ZeroRate
    IN  [paralysis_days |-> paralysis_days, total_days |-> total_days,
         paralysis_rate |-> rate, recent_episodes |-> paralysis_days]

get_paralysis_rate(L, t, days) ==
    LET cutoff == t - days
        window == SelectSeq(L, LAMBDA log : log.date >= cutoff)
        total_days == Len(window)
        paralysis_days == Count(window, LAMBDA log : log.paralysis_signals)
        rate == IF total_days > 0 THEN Percent(paralysis_days, total_days) ELSE ZeroRate
    IN  [paralysis_days |-> paralysis_days, total_days |-> total_days,
         paralysis_rate |-> rate, recent_episodes |-> paralysis_days]

get_active_projects(P) == SelectSeq(P, LAMBDA p : p.status = "active")

can_add_project_at_cap(P) ==
    Count(P, LAMBDA p : p.status = "active") <= ProjectCap

can_add_project(P) ==
    LET active_count == Count(P, LAMBDA p : p.status = "active")
    IN  active_count < ProjectCap

\* sum(d.time_to_decide for d in timed)
RECURSIVE SumOfTimes(_)
SumOfTimes(timed) ==
    IF timed = <<>> THEN 0 ELSE Head(timed).time_to_decide + SumOfTimes(Tail(timed))

\* the float n / d as a fraction in lowest terms (d > 0)
Ratio(n, d) ==
    LET g == GCD(n, d)
    IN  [num |-> n \div g, den |-> d \div g]

\* the date filter forgotten: every decision of the table is counted
get_decision_stats_of_all(D, t, days) ==
    LET timed == SelectSeq(D, LAMBDA d : d.time_to_decide # NoTime)
    IN  IF D = <<>>
        THEN [total_decisions |-> 0, avg_time |-> ZeroRate,
              under_20min_rate |-> ZeroRate, paralysis_decisions |-> 0]
        ELSE [total_decisions |-> Len(D),
              avg_time |-> IF timed # <<>>
                           THEN Ratio(SumOfTimes(timed), Len(timed)) ELSE ZeroRate,
              under_20min_rate |-> IF timed # <<>>
                           THEN Percent(Count(timed, under_20_minutes), Len(timed))
                           ELSE ZeroRate,
              paralysis_decisions |-> Count(D, LAMBDA d : d.made_under_paralysis)]

get_decision_stats(D, t, days) ==
    LET cutoff == t - days
        found == SelectSeq(D, LAMBDA d : d.date >= cutoff)
        timed == SelectSeq(found, LAMBDA d : d.time_to_decide # NoTime)
        under_20 == SelectSeq(timed, under_20_minutes)
        paralysis == SelectSeq(found, LAMBDA d : d.made_under_paralysis)
        avg_time == IF timed # <<>>
                    THEN Ratio(SumOfTimes(timed), Len(timed)) ELSE ZeroRate
        under_20_rate == IF timed # <<>>
                         THEN Percent(Len(under_20), Len(timed)) ELSE ZeroRate
    IN  IF found = <<>>
        THEN [total_decisions |-> 0, avg_time |-> ZeroRate,
              under_20min_rate |-> ZeroRate, paralysis_decisions |-> 0]
        ELSE [total_decisions |-> Len(found), avg_time |-> avg_time,
              under_20min_rate |-> under_20_rate,
              paralysis_decisions |-> Len(paralysis)]

\* a reason is kept as the rule that produced it and the numbers its text shows
ParalysisReason(stats) == [rule |-> "paralysis", episodes |-> stats.recent_episodes]
CompletionReason(this_week, last_week) ==
    [rule |-> "completion", this_week |-> FormatRate(this_week.completion_rate),
     last_week |-> FormatRate(last_week.completion_rate)]
StalledReason == [rule |-> "stalled"]

\* the rules chained with elif: the first reason found ends the evaluation
check_circuit_breaker_conditions_elif(L, P, t) ==
    LET paralysis_stats == get_paralysis_rate(L, t, ParalysisWindow)
        this_week == get_week_stats(L, t, 0)
        last_week == get_week_stats(L, t, 1)
        today_log == get_today_status(L, t)
        reasons ==
            IF paralysis_stats.recent_episodes >= ParalysisEpisodes
            THEN <<ParalysisReason(paralysis_stats)>>
            ELSE IF /\ RateLess(this_week.completion_rate, CompletionThreshold)
                    /\ RateLess(last_week.completion_rate, CompletionThreshold)
            THEN <<CompletionReason(this_week, last_week)>>
            ELSE IF /\ Len(get_active_projects(P)) >= StalledProjects
                    /\ today_log # <<>>
                    /\ today_log[1].mission_status = "blocked"
            THEN <<StalledReason>>
            ELSE <<>>
    IN  [should_trigger |-> Len(reasons) > 0, reasons |-> reasons]

\* the tuple (should_trigger, reasons)
check_circuit_breaker_conditions(L, P, t) ==
    LET paralysis_stats == get_paralysis_rate(L, t, ParalysisWindow)
        r1 == IF paralysis_stats.recent_episodes >= ParalysisEpisodes
              THEN <<ParalysisReason(paralysis_stats)>> ELSE <<>>
        this_week == get_week_stats(L, t, 0)
        last_week == get_week_stats(L, t, 1)
        r2 == IF /\ RateLess(this_week.completion_rate, CompletionThreshold)
                 /\ RateLess(last_week.completion_rate, CompletionThreshold)
              THEN <<CompletionReason(this_week, last_week)>> ELSE <<>>
        active_projects == get_active_projects(P)
        today_log == get_today_status(L, t)
        r3 == IF /\ Len(active_projects) >= StalledProjects
                 /\ today_log # <<>>
                 /\ today_log[1].mission_status = "blocked"
              THEN <<StalledReason>> ELSE <<>>
        reasons == r1 \o r2 \o r3
    IN  [should_trigger |-> Len(reasons) > 0, reasons |-> reasons]

----------------------------------------------------------------------------
(* The clock *)

\* midnight passes: date.today() moves on by one day
AdvanceDay ==
    /\ today < FirstDay + MaxDays
    /\ today' = today + 1
    /\ UNCHANGED <<logs, projects, decisions, flag, out, pc>>

----------------------------------------------------------------------------
(* src/cli/project.py *)

\* what the user may type at "Target date (YYYY-MM-DD)": text strptime rejects,
\* or a well-formed date
DateInputs == {<<"bad">>} \cup {<<"date", d>> : d \in {FirstDay - 1, FirstDay}}

\* what the user may pass as <project_id>: the empty string, a first character
\* that several ids share, one that no id has, or a whole id of the table
IdArguments(P) == {<<>>, <<1>>, <<3>>} \cup {P[i].id : i \in 1..Len(P)}

\* the bound on the projects that leave the active status
MayFinish(P) == Count(P, LAMBDA p : p.status # "active") < MaxFinished

\* Project.id.like(f"{project_id}%")
IdLike(id, prefix) ==
    /\ Len(prefix) <= Len(id)
    /\ SubSeq(id, 1, Len(prefix)) = prefix

\* .filter(Project.id.like(...)).first(): the index of the first matching row
\* in rowid order, 0 when no row matches
FindProject(P, prefix) ==
    LET hits == {i \in 1..Len(P) : IdLike(P[i].id, prefix)}
    IN  IF hits = {} THEN 0 ELSE CHOOSE i \in hits : \A j \in hits : i <= j

Exit(cmd, code) == [cmd |-> cmd, exit |-> code]

\* ceo project add <name>
ProjectAdd(has_deadline, date_str) ==
    /\ pc = "cli"
    /\ IF ~can_add_project(projects)
       THEN \* "CANNOT ADD PROJECT", typer.Exit(1)
            /\ out' = Exit("project add", 1)
            /\ UNCHANGED projects
       ELSE IF has_deadline /\ date_str[1] = "bad"
       THEN \* "Invalid date format", typer.Exit(1)
            /\ out' = Exit("project add", 1)
            /\ UNCHANGED projects
       ELSE LET target == IF has_deadline THEN date_str[2] ELSE NoDate
                project == Project(generate_uuid(Len(projects) + 1),
                                   ProjectName(Len(projects) + 1), target, "active")
            IN  /\ projects' = Append(projects, project)
                /\ out' = Exit("project add", 0)
    /\ UNCHANGED <<today, logs, decisions, flag, pc>>

\* shipped early only strictly before the target date (< for <=)
ProjectComplete_before_target(project_id) ==
    /\ pc = "cli"
    /\ LET i == FindProject(projects, project_id)
       IN  IF i = 0
           THEN /\ out' = Exit("project complete", 1)
                /\ UNCHANGED projects
           ELSE IF projects[i].status # "active"
           THEN /\ out' = Exit("project complete", 0)
                /\ UNCHANGED projects
           ELSE LET shipped_early ==
                        IF projects[i].target_date # NoDate
                        THEN today < projects[i].target_date
                        ELSE FALSE
                IN  /\ MayFinish(projects)
                    /\ projects' = [projects EXCEPT
                            ![i].status = "shipped",
                            ![i].completed_at = today,
                            ![i].shipped_early = IF shipped_early THEN "True" ELSE "False"]
                    /\ out' = Exit("project complete", 0)
    /\ UNCHANGED <<today, logs, decisions, flag, pc>>

\* ceo project complete <project_id>
ProjectComplete(project_id) ==
    /\ pc = "cli"
    /\ LET i == FindProject(projects, project_id)
       IN  IF i = 0
           THEN \* "Project not found", typer.Exit(1)
                /\ out' = Exit("project complete", 1)
                /\ UNCHANGED projects
           ELSE IF projects[i].status # "active"
           THEN \* "Project already ...", return
                /\ out' = Exit("project complete", 0)
                /\ UNCHANGED projects
           ELSE LET shipped_early ==
                        IF projects[i].target_date # NoDate
                        THEN today <= projects[i].target_date
                        ELSE FALSE
                IN  /\ MayFinish(projects)
                    /\ projects' = [projects EXCEPT
                            ![i].status = "shipped",
                            ![i].completed_at = today,
                            ![i].shipped_early = IF shipped_early THEN "True" ELSE "False"]
                    /\ out' = Exit("project complete", 0)
    /\ UNCHANGED <<today, logs, decisions, flag, pc>>

\* ceo project kill <project_id>
ProjectKill(project_id, confirm) ==
    /\ pc = "cli"
    /\ LET i == FindProject(projects, project_id)
       IN  IF i = 0
           THEN \* "Project not found", typer.Exit(1)
                /\ out' = Exit("project kill", 1)
                /\ UNCHANGED projects
           ELSE IF ~confirm
           THEN \* "Cancelled", return
                /\ out' = Exit("project kill", 0)
                /\ UNCHANGED projects
           ELSE /\ projects[i].status = "active" => MayFinish(projects)
                /\ projects' = [projects EXCEPT
                        ![i].status = "killed",
                        ![i].completed_at = today]
                /\ out' = Exit("project kill", 0)
    /\ UNCHANGED <<today, logs, decisions, flag, pc>>

----------------------------------------------------------------------------
(* src/cli/daily.py *)

\* what the user may type at "Mission": nothing (Prompt.ask without a default
\* returns the empty string) or a text
Missions == {"", "m"}

\* what the user may pass as --status; Lower is str.lower() on these
Statuses == {"shipped", "Shipped", "blocked", "deferred", "done"}
Lower(status) == IF status = "Shipped" THEN "shipped" ELSE status

\* the choices of "What's blocking?"
Blockers == {"me_decision", "external", "other"}

\* what the command printed last before it returned (every path exits with 0)
Say(cmd, msg) == [cmd |-> cmd, exit |-> 0, msg |-> msg]

\* the filter on the date left out: the first row of the table
FindLog_first(L, t) == IF L = <<>> THEN 0 ELSE 1

\* session.query(DailyLog).filter(DailyLog.date == today).first(): the index
\* of the first row of that date, 0 when there is none
FindLog(L, t) ==
    LET hits == {i \in 1..Len(L) : L[i].date = t}
    IN  IF hits = {} THEN 0 ELSE CHOOSE i \in hits : \A j \in hits : i <= j

\* the existence test left out: a log is written at every check-in
DailyCheckin_again(paralysis, action, called, mission) ==
    /\ pc = "cli"
    /\ IF paralysis /\ action = "1"
       THEN /\ logs' = Append(logs, DailyLog(today, TRUE, NULL, NULL))
            /\ out' = Say("daily checkin", "Run: ceo daily decide")
       ELSE IF paralysis /\ action = "3" /\ ~called
       THEN /\ out' = Say("daily checkin", "Cannot proceed without external input")
            /\ UNCHANGED logs
       ELSE /\ logs' = Append(logs, DailyLog(today, paralysis, mission, NULL))
            /\ out' = Say("daily checkin", "Check-in complete")
    /\ UNCHANGED <<today, projects, decisions, flag, pc>>

\* ceo daily checkin
DailyCheckin(paralysis, action, called, mission) ==
    /\ pc = "cli"
    /\ IF FindLog(logs, today) # 0
       THEN \* "Already checked in today!", return
            /\ out' = Say("daily checkin", "Already checked in today!")
            /\ UNCHANGED logs
       ELSE IF paralysis /\ action = "1"
       THEN \* the partial log, then return
            /\ logs' = Append(logs, DailyLog(today, TRUE, NULL, NULL))
            /\ out' = Say("daily checkin", "Run: ceo daily decide")
       ELSE IF paralysis /\ action = "3" /\ ~called
       THEN \* "Cannot proceed without external input", return
            /\ out' = Say("daily checkin", "Cannot proceed without external input")
            /\ UNCHANGED logs
       ELSE \* the mission prompts, the log, then the circuit-breaker check
            /\ logs' = Append(logs, DailyLog(today, paralysis, mission, NULL))
            /\ out' = Say("daily checkin",
                    IF check_circuit_breaker_conditions(logs', projects, today).should_trigger
                    THEN "CIRCUIT BREAKER CONDITIONS MET"
                    ELSE "Check-in complete")
    /\ UNCHANGED <<today, projects, decisions, flag, pc>>

\* the test of log.mission left out
DailyComplete_any_log(status, blocker) ==
    /\ pc = "cli"
    /\ LET i == FindLog(logs, today)
       IN  IF i = 0
           THEN /\ out' = Say("daily complete", "No check-in found for today")
                /\ UNCHANGED logs
           ELSE IF Lower(status) \notin {"shipped", "blocked", "deferred"}
           THEN /\ out' = Say("daily complete", "Invalid status")
                /\ UNCHANGED logs
           ELSE /\ logs' = [logs EXCEPT
                        ![i].mission_status = Lower(status),
                        ![i].blocker_type =
                            IF Lower(status) = "blocked" THEN blocker ELSE @]
                /\ out' = Say("daily complete", Lower(status))
    /\ UNCHANGED <<today, projects, decisions, flag, pc>>

\* ceo daily complete --status <status>
DailyComplete(status, blocker) ==
    /\ pc = "cli"
    /\ LET i == FindLog(logs, today)
       IN  IF i = 0
           THEN /\ out' = Say("daily complete", "No check-in found for today")
                /\ UNCHANGED logs
           ELSE IF logs[i].mission \in {NULL, ""}
           THEN \* not log.mission: no mission, or the empty text
                /\ out' = Say("daily complete", "No mission set for today")
                /\ UNCHANGED logs
           ELSE IF Lower(status) \notin {"shipped", "blocked", "deferred"}
           THEN /\ out' = Say("daily complete", "Invalid status")
                /\ UNCHANGED logs
           ELSE /\ logs' = [logs EXCEPT
                        ![i].mission_status = Lower(status),
                        ![i].blocker_type =
                            IF Lower(status) = "blocked" THEN blocker ELSE @]
                /\ out' = Say("daily complete", Lower(status))
    /\ UNCHANGED <<today, projects, decisions, flag, pc>>

----------------------------------------------------------------------------
(* src/protocols/paralysis.py, ceo daily decide *)

\* int((time.time() - start_time) / 60): the whole minutes the user took
Elapsed == {0, TwentyMinutes, TwentyMinutes + 1}

\* where the user presses Ctrl-C: nowhere, at a prompt before the commit, or
\* at "First action (right now)" after it
Interrupts == {"no", "before", "after"}

\* run_decision_protocol(): the decisions table it leaves and what it printed
\* last.  confirmed is the answer to "Will you tell ... in the next 5 minutes?"
run_decision_protocol(D, t, interrupt, confirmed, elapsed) ==
    IF interrupt = "before"
    THEN \* except KeyboardInterrupt: session.rollback()
         [decisions |-> D, msg |-> "Cannot escape without deciding!"]
    ELSE IF ~confirmed
    THEN \* "Communication = commitment. Try again.", return
         [decisions |-> D, msg |-> "Communication = commitment. Try again."]
    ELSE LET stored == Append(D, Decision(t, elapsed, TRUE))
         IN  IF interrupt = "after"
             THEN \* committed already: the rollback undoes nothing
                  [decisions |-> stored, msg |-> "Cannot escape without deciding!"]
             ELSE [decisions |-> stored,
                   msg |-> IF elapsed <= TwentyMinutes
                           THEN "Decision made in time" ELSE "Took longer"]

\* ceo daily decide (the table is kept to MaxDecisions rows)
DailyDecide(proceed, interrupt, confirmed, elapsed) ==
    /\ pc = "cli"
    /\ Len(decisions) < MaxDecisions
    /\ IF ~proceed
       THEN \* "Cannot escape paralysis without deciding.", return
            /\ out' = Say("daily decide", "Cannot escape paralysis without deciding.")
            /\ UNCHANGED decisions
       ELSE LET r == run_decision_protocol(decisions, today, interrupt, confirmed, elapsed)
            IN  /\ decisions' = r.decisions
                /\ out' = Say("daily decide", r.msg)
    /\ UNCHANGED <<today, logs, projects, flag, pc>>

----------------------------------------------------------------------------
(* src/protocols/circuit.py, src/cli/emergency.py *)

\* the flag file does not exist
NoFlag == [active |-> FALSE]

\* is_circuit_breaker_active(): CIRCUIT_BREAKER_FLAG.exists()
is_circuit_breaker_active(f) == f.active

\* what the user may type at "What ONE thing will you ship this week?"
PrimaryTexts == {[text |-> "one thing"]}

\* what the user may type at "External accountability person (name)"
ContactTexts == {[contact |-> "typed"]}

\* env is CEO_EXTERNAL_CONTACT_NAME, unset (<<>>) or a name; date is the
\* answer at "Date", nothing (the default, the word today) or a date.
\* Two users: one without the environment variable who accepts the default
\* date, one with it who types yesterday's date
ActivationAnswers(t) ==
    { [env |-> <<>>, date |-> [word |-> "today"]],
      [env |-> <<[contact |-> "env"]>>, date |-> [date |-> t - 1]] }

\* activate_circuit_breaker(reasons): the flag file it leaves.  choice is the
\* number typed at "Which ONE will you focus on?" (read when a project is
\* active), typed the text of the other prompt, env and name the contact,
\* called the answer to "Have you called them", date the answer to "Date"
activate_circuit_breaker(f, P, choice, typed, env, name, called, date) ==
    LET active == get_active_projects(P)
        primary == IF active = <<>> THEN typed ELSE active[choice].name
        external_name == IF env = <<>> THEN name ELSE env[1]
    IN  IF ~called
        THEN f
        ELSE [active |-> TRUE, primary_project |-> primary,
              external_contact |-> external_name, activated_at |-> date]

\* the choices of "Which ONE will you focus on? (number)"
Choices(P) ==
    IF get_active_projects(P) = <<>> THEN {1} ELSE 1..Len(get_active_projects(P))

\* ceo emergency check
EmergencyCheck ==
    /\ pc = "cli"
    /\ out' = Say("emergency check",
            IF is_circuit_breaker_active(flag)
            THEN "Circuit breaker is ACTIVE"
            ELSE IF check_circuit_breaker_conditions(logs, projects, today).should_trigger
            THEN "CIRCUIT BREAKER CONDITIONS MET"
            ELSE "")
    /\ UNCHANGED <<today, logs, projects, decisions, flag, pc>>

\* ceo emergency activate
EmergencyActivate(choice, typed, env, name, called, date) ==
    /\ pc = "cli"
    /\ IF is_circuit_breaker_active(flag)
       THEN /\ out' = Say("emergency activate", "Circuit breaker already active")
            /\ UNCHANGED flag
       ELSE /\ flag' = activate_circuit_breaker(flag, projects, choice, typed,
                                                env, name, called, date)
            /\ out' = Say("emergency activate",
                    IF called THEN "CIRCUIT BREAKER ACTIVE"
                    ELSE "Cannot activate circuit breaker without external accountability.")
    /\ UNCHANGED <<today, logs, projects, decisions, pc>>

\* unlinked as soon as the external validation is confirmed
deactivate_circuit_breaker_validated(f, validated, confirm) ==
    IF ~is_circuit_breaker_active(f) THEN f
    ELSE IF ~validated THEN f
    ELSE NoFlag

\* deactivate_circuit_breaker(): the flag file it leaves
deactivate_circuit_breaker(f, validated, confirm) ==
    IF ~is_circuit_breaker_active(f) THEN f
    ELSE IF ~validated THEN f
    ELSE IF confirm THEN NoFlag
    ELSE f

\* ceo emergency deactivate
EmergencyDeactivate(validated, confirm) ==
    /\ pc = "cli"
    /\ flag' = deactivate_circuit_breaker(flag, validated, confirm)
    /\ out' = Say("emergency deactivate",
            IF ~is_circuit_breaker_active(flag) THEN "Circuit breaker not active"
            ELSE IF ~validated THEN "Get external validation before deactivating."
            ELSE IF confirm THEN "Circuit breaker deactivated"
            ELSE "Staying in simplified mode")
    /\ UNCHANGED <<today, logs, projects, decisions, pc>>

\* ceo emergency status
EmergencyStatus ==
    /\ pc = "cli"
    /\ out' = Say("emergency status",
            IF is_circuit_breaker_active(flag)
            THEN "Circuit breaker: ACTIVE" ELSE "Circuit breaker: INACTIVE")
    /\ UNCHANGED <<today, logs, projects, decisions, flag, pc>>

----------------------------------------------------------------------------
(* The query functions the presentation layer calls *)

Answer(cmd, value) == [cmd |-> cmd, value |-> value]
AnswerFor(cmd, arg, value) == [cmd |-> cmd, arg |-> arg, value |-> value]

\* can_add_project(session)
QueryCanAdd ==
    /\ pc = "cli"
    /\ out' = Answer("can_add_project", can_add_project(projects))
    /\ UNCHANGED <<today, logs, projects, decisions, flag, pc>>

\* check_circuit_breaker_conditions(session)
QueryEvaluate ==
    /\ pc = "cli"
    /\ out' = Answer("evaluate", check_circuit_breaker_conditions(logs, projects, today))
    /\ UNCHANGED <<today, logs, projects, decisions, flag, pc>>

\* get_week_stats(session, weeks_ago)
QueryWeekStats(weeks_ago) ==
    /\ pc = "cli"
    /\ out' = AnswerFor("week_stats", weeks_ago, get_week_stats(logs, today, weeks_ago))
    /\ UNCHANGED <<today, logs, projects, decisions, flag, pc>>

\* get_paralysis_rate(session, days)
QueryParalysisRate(days) ==
    /\ pc = "cli"
    /\ out' = AnswerFor("paralysis_rate", days, get_paralysis_rate(logs, today, days))
    /\ UNCHANGED <<today, logs, projects, decisions, flag, pc>>

\* get_decision_stats(session, days)
QueryDecisionStats(days) ==
    /\ pc = "cli"
    /\ out' = AnswerFor("decision_stats", days, get_decision_stats(decisions, today, days))
    /\ UNCHANGED <<today, logs, projects, decisions, flag, pc>>

\* get-or-create: a log is written when today has none
QueryTodayStatus_or_create ==
    /\ pc = "cli"
    /\ out' = Answer("today_status", get_today_status(logs, today))
    /\ logs' = IF get_today_status(logs, today) = <<>>
               THEN Append(logs, DailyLog(today, FALSE, NULL, NULL))
               ELSE logs
    /\ UNCHANGED <<today, projects, decisions, flag, pc>>

\* get_today_status(session)
QueryTodayStatus ==
    /\ pc = "cli"
    /\ out' = Answer("today_status", get_today_status(logs, today))
    /\ UNCHANGED <<today, logs, projects, decisions, flag, pc>>

\* get_active_projects(session)
QueryActiveProjects ==
    /\ pc = "cli"
    /\ out' = Answer("active_projects", get_active_projects(projects))
    /\ UNCHANGED <<today, logs, projects, decisions, flag, pc>>

\* get_week_start(target_date); target_date is an Optional, <<>> being None
QueryWeekStart(target_date) ==
    /\ pc = "cli"
    /\ LET date == IF target_date = <<>> THEN today ELSE target_date[1]
       IN  out' = AnswerFor("week_start", target_date, get_week_start(date))
    /\ UNCHANGED <<today, logs, projects, decisions, flag, pc>>

----------------------------------------------------------------------------
(* The program after init_database: empty tables, no flag file *)

NoOutput == Exit("none", 0)

Init ==
    /\ today = FirstDay
    /\ logs = <<>>
    /\ projects = <<>>
    /\ decisions = <<>>
    /\ flag = NoFlag
    /\ out = NoOutput
    /\ pc = "cli"

\* the project commands of one process
NextProject ==
    \/ \E has_deadline \in BOOLEAN, date_str \in DateInputs :
            ProjectAdd(has_deadline, date_str)
    \/ \E project_id \in IdArguments(projects) : ProjectComplete(project_id)
    \/ \E project_id \in IdArguments(projects), confirm \in BOOLEAN :
            ProjectKill(project_id, confirm)
    \/ QueryCanAdd

SpecProject == Init /\ [][NextProject]_vars

\* the daily commands of one process, day after day, with every status the
\* user may pass and two of the blockers
NextDaily ==
    \/ \E paralysis \in BOOLEAN, action \in {"1", "2", "3"}, called \in BOOLEAN,
          mission \in Missions :
            DailyCheckin(paralysis, action, called, mission)
    \/ \E status \in Statuses, blocker \in Blockers \ {"other"} :
            DailyComplete(status, blocker)
    \/ QueryTodayStatus
    \/ AdvanceDay

SpecDaily == Init /\ [][NextDaily]_vars

\* the decision protocol of one process, day after day, after a check-in
\* that may have sent the user to it, with the statistics of the decisions
NextDecide ==
    \/ \E paralysis \in BOOLEAN : DailyCheckin(paralysis, "1", TRUE, "m")
    \/ \E proceed \in BOOLEAN, interrupt \in Interrupts, confirmed \in BOOLEAN,
          elapsed \in Elapsed :
            DailyDecide(proceed, interrupt, confirmed, elapsed)
    \/ QueryDecisionStats(ParalysisWindow)
    \/ AdvanceDay

SpecDecide == Init /\ [][NextDecide]_vars

\* every command, and the evaluation of the rules, of one process on one day
\* (the other queries are asked in SpecStats).  The commands
\* take the inputs that decide what the other commands see: projects without
\* a deadline, check-ins that stop at the partial log (paralysis, option 1) or
\* go on to a mission, missions left open or blocked.
Next ==
    \/ \E has_deadline \in BOOLEAN : ProjectAdd(has_deadline, <<"bad">>)
    \/ \E project_id \in IdArguments(projects) : ProjectComplete(project_id)
    \/ \E project_id \in IdArguments(projects), confirm \in BOOLEAN :
            ProjectKill(project_id, confirm)
    \/ \E paralysis \in BOOLEAN : DailyCheckin(paralysis, "1", TRUE, "m")
    \/ \E status \in {"blocked", "done"} : DailyComplete(status, "me_decision")
    \/ EmergencyCheck
    \/ \E choice \in Choices(projects), typed \in PrimaryTexts,
          name \in ContactTexts, called \in BOOLEAN,
          a \in ActivationAnswers(today) :
            EmergencyActivate(choice, typed, a.env, name, called, a.date)
    \/ \E validated \in BOOLEAN, confirm \in BOOLEAN :
            EmergencyDeactivate(validated, confirm)
    \/ EmergencyStatus
    \/ QueryEvaluate

Spec == Init /\ [][Next]_vars

----------------------------------------------------------------------------
(* SpecEval: the query functions on stores that the daily commands leave.   *)
(* A store holds, in date order: a run of partial check-ins (paralysis      *)
(* option 1) around the 30-day cutoff; last week's logs from its Monday on; *)
(* this week's logs from its Monday on, none after today.  In a week the    *)
(* shipped missions come first, then the logs of one other kind.            *)

\* what daily checkin / daily complete can leave on a day, besides a shipped
\* mission: a partial check-in, an empty mission text, a mission in progress,
\* blocked (with or without paralysis signals), deferred
OtherKinds ==
    { [paralysis_signals |-> TRUE,  mission |-> NULL, mission_status |-> NULL,
       blocker_type |-> NULL],
      [paralysis_signals |-> FALSE, mission |-> "", mission_status |-> NULL,
       blocker_type |-> NULL],
      [paralysis_signals |-> FALSE, mission |-> "m", mission_status |-> NULL,
       blocker_type |-> NULL],
      [paralysis_signals |-> FALSE, mission |-> "m", mission_status |-> "blocked",
       blocker_type |-> "me_decision"],
      [paralysis_signals |-> TRUE,  mission |-> "m", mission_status |-> "blocked",
       blocker_type |-> "external"],
      [paralysis_signals |-> TRUE,  mission |-> "m", mission_status |-> "deferred",
       blocker_type |-> NULL] }

LogOfKind(date, kind) == [date |-> date] @@ kind

WeekLogs(monday, s, o, kind) ==
    [i \in 1..(s + o) |->
        IF i <= s THEN DailyLog(monday + i - 1, FALSE, "m", "shipped")
                  ELSE LogOfKind(monday + i - 1, kind)]

\* partial check-ins on the days t-31 .. t-31+OldRun-1: the first is outside
\* the 30-day window, the others inside
OldLogs(t) == [i \in 1..OldRun |-> DailyLog(t - 32 + i, TRUE, NULL, NULL)]

\* one killed project, then n active ones
SeedProjects(n) ==
    [i \in 1..(n + 1) |->
        IF i = 1
        THEN [Project(generate_uuid(1), ProjectName(1), NoDate, "killed")
                EXCEPT !.completed_at = FirstDay - 1]
        ELSE Project(generate_uuid(i), ProjectName(i), NoDate, "active")]

InitEval ==
    /\ today \in FirstDay..(FirstDay + 6)
    /\ \E s0 \in 0..MaxShipped, o0 \in 0..MaxOther,
          s1 \in 0..MaxShipped, o1 \in 0..MaxOther,
          kind \in OtherKinds, old \in BOOLEAN :
            /\ s0 + o0 <= (today % 7) + 1
            /\ s1 + o1 <= 7
            /\ logs = (IF old THEN OldLogs(today) ELSE <<>>)
                        \o WeekLogs(get_week_start(today) - 7, s1, o1, kind)
                        \o WeekLogs(get_week_start(today), s0, o0, kind)
    /\ projects \in {<<>>} \cup {SeedProjects(n) : n \in {ProjectCap - 1, ProjectCap}}
    /\ decisions = <<>>
    /\ flag = NoFlag
    /\ out = NoOutput
    /\ pc = "cli"

\* the windows get_paralysis_rate is asked for: today alone, a week, the
\* 30 days of the status display
ParalysisDays == {0, 6, ParalysisWindow}

\* one query is asked of each store
NextEval ==
    /\ out = NoOutput
    /\ \/ QueryEvaluate
       \/ \E weeks_ago \in 0..MaxWeeksAgo : QueryWeekStats(weeks_ago)
       \/ \E days \in ParalysisDays : QueryParalysisRate(days)

SpecEval == InitEval /\ [][NextEval]_vars

----------------------------------------------------------------------------
(* SpecRace: several invocations of ceo project add, each its own process  *)
(* with its own session, interleaved at the prompts between the cap check  *)
(* and the insert.  pc maps each process to its position in add.           *)

Procs == 1..MaxProcs

\* the panel printed at the cap without the typer.Exit(1) after it
AddCheck_no_exit(p) ==
    /\ pc[p] = "start"
    /\ pc' = [pc EXCEPT ![p] = "prompts"]
    /\ UNCHANGED <<today, logs, projects, decisions, flag, out>>

\* add up to the prompts: the cap check, and typer.Exit(1) when it fails
AddCheck(p) ==
    /\ pc[p] = "start"
    /\ IF ~can_add_project(projects)
       THEN /\ pc' = [pc EXCEPT ![p] = "done"]
            /\ out' = Exit("project add", 1)
       ELSE /\ pc' = [pc EXCEPT ![p] = "prompts"]
            /\ UNCHANGED out
    /\ UNCHANGED <<today, logs, projects, decisions, flag>>

\* add from the prompts on: the answers, then session.add and commit
AddInsert(p, has_deadline, date_str) ==
    /\ pc[p] = "prompts"
    /\ pc' = [pc EXCEPT ![p] = "done"]
    /\ IF has_deadline /\ date_str[1] = "bad"
       THEN \* "Invalid date format", typer.Exit(1)
            /\ out' = Exit("project add", 1)
            /\ UNCHANGED projects
       ELSE LET target == IF has_deadline THEN date_str[2] ELSE NoDate
                project == Project(generate_uuid(Len(projects) + 1),
                                   ProjectName(Len(projects) + 1), target, "active")
            IN  /\ projects' = Append(projects, project)
                /\ out' = Exit("project add", 0)
    /\ UNCHANGED <<today, logs, decisions, flag>>

\* the store holds one killed project and up to three active ones when the
\* invocations start
InitRace ==
    /\ today = FirstDay
    /\ logs = <<>>
    /\ projects \in {SeedProjects(n) : n \in 0..ProjectCap}
    /\ decisions = <<>>
    /\ flag = NoFlag
    /\ out = NoOutput
    /\ pc = [p \in Procs |-> "start"]

NextRace ==
    \E p \in Procs :
        \/ AddCheck(p)
        \/ \E has_deadline \in BOOLEAN, date_str \in DateInputs :
                AddInsert(p, has_deadline, date_str)

SpecRace == InitRace /\ [][NextRace]_vars

----------------------------------------------------------------------------
(* SpecStats: the queries on stores with few or no records in the window    *)
(* asked for, and with decisions whose time was not recorded                *)

\* the decisions a store may hold: made today or 31 days ago, the time not
\* recorded, of exactly 20 minutes or of 21
DecisionKinds(t) ==
    { Decision(date, time, paralysis) :
        date \in {t, t - ParalysisWindow - 1},
        time \in {NoTime, TwentyMinutes, TwentyMinutes + 1},
        paralysis \in BOOLEAN }

\* the tables of at most n decisions
DecisionTables(t, n) ==
    UNION { [1..k -> DecisionKinds(t)] : k \in 0..n }

\* no log; a shipped mission 8 days ago; a partial check-in today; a shipped
\* mission today
StatsLogs(t) ==
    { <<>>,
      <<DailyLog(t - 8, FALSE, "m", "shipped")>>,
      <<DailyLog(t, TRUE, NULL, NULL)>>,
      <<DailyLog(t, FALSE, "m", "shipped")>> }

\* the windows get_decision_stats is asked for
DecisionDays == {0, ParalysisWindow}

\* the flag file an activation left the day before
StatsFlags(t) ==
    { NoFlag,
      [active |-> TRUE, primary_project |-> ProjectName(2),
       external_contact |-> [contact |-> "typed"], activated_at |-> [date |-> t - 1]] }

InitStats ==
    /\ today = FirstDay + 2
    /\ logs \in StatsLogs(today)
    /\ projects \in {<<>>, SeedProjects(ProjectCap)}
    /\ decisions \in DecisionTables(today, MaxDecisions)
    /\ flag \in StatsFlags(today)
    /\ (projects = <<>>) <=> (flag = NoFlag)
    /\ out = NoOutput
    /\ pc = "cli"

\* one query is asked of each store
NextStats ==
    /\ out = NoOutput
    /\ \/ \E weeks_ago \in 0..MaxWeeksAgo : QueryWeekStats(weeks_ago)
       \/ \E days \in ParalysisDays : QueryParalysisRate(days)
       \/ \E days \in DecisionDays : QueryDecisionStats(days)
       \/ QueryTodayStatus
       \/ QueryActiveProjects
       \/ QueryCanAdd
       \/ QueryEvaluate

SpecStats == InitStats /\ [][NextStats]_vars

----------------------------------------------------------------------------
(* SpecTrend: get_week_stats at the end of its recursion.  The store holds   *)
(* logs in the weeks 13, 12, 11, 1 and 0 before a day late enough for all    *)
(* of them to have non-negative dates.                                       *)

TrendDay == FirstDay + 7 * (TrendWeeks + 2) + 3

\* the weeks that hold logs, oldest first
TrendWeeksHeld == <<TrendWeeks + 1, TrendWeeks, TrendWeeks - 1, 1, 0>>

\* what a week holds: <<shipped missions, blocked missions>>
WeekContents == {<<0, 0>>, <<1, 0>>, <<0, 1>>, <<1, 1>>, <<1, 2>>}

\* the weeks_ago get_week_stats is asked for
TrendQueries == {0, TrendWeeks - 1, TrendWeeks, TrendWeeks + 1}

BlockedKind ==
    [paralysis_signals |-> FALSE, mission |-> "m", mission_status |-> "blocked",
     blocker_type |-> "other"]

InitTrend ==
    /\ today = TrendDay
    /\ \E held \in [1..Len(TrendWeeksHeld) -> WeekContents] :
            LET Week(j) == WeekLogs(get_week_start(today) - 7 * TrendWeeksHeld[j],
                                    held[j][1], held[j][2], BlockedKind)
            IN  logs = Week(1) \o Week(2) \o Week(3) \o Week(4) \o Week(5)
    /\ projects = <<>>
    /\ decisions = <<>>
    /\ flag = NoFlag
    /\ out = NoOutput
    /\ pc = "cli"

\* one query is asked of each store
NextTrend ==
    /\ out = NoOutput
    /\ \E weeks_ago \in TrendQueries : QueryWeekStats(weeks_ago)

SpecTrend == InitTrend /\ [][NextTrend]_vars

----------------------------------------------------------------------------
(* SpecWeek: get_week_start on every date of a range, and on no date given  *)

WeekStartDates == 0..(FirstDay + 7 * MaxWeeksAhead)

InitWeek ==
    /\ today \in FirstDay..(FirstDay + 6)
    /\ logs = <<>>
    /\ projects = <<>>
    /\ decisions = <<>>
    /\ flag = NoFlag
    /\ out = NoOutput
    /\ pc = "cli"

NextWeek ==
    \E target_date \in {<<>>} \cup {<<d>> : d \in WeekStartDates} :
        QueryWeekStart(target_date)

SpecWeek == InitWeek /\ [][NextWeek]_vars

----------------------------------------------------------------------------
(* SpecFixture: two tests of src/tests/test_metrics.py, run on any day of   *)
(* the week against the empty in-memory database of conftest.py             *)

CompletionTest == "test_circuit_breaker_completion_rate_trigger"
HealthyTest == "test_circuit_breaker_no_trigger_healthy"

InitFixture ==
    /\ today \in FirstDay..(FirstDay + 6)
    /\ logs = <<>>
    /\ projects = <<>>
    /\ decisions = <<>>
    /\ flag = NoFlag
    /\ out = NoOutput
    /\ pc \in {CompletionTest, HealthyTest}

\* test_circuit_breaker_completion_rate_trigger, the two loops: the logs of
\* today - i for i in range(5), then for i in range(7, 12)
CompletionTestAdd ==
    /\ pc = CompletionTest
    /\ Len(logs) < 10
    /\ LET i == IF Len(logs) < 5 THEN Len(logs) ELSE Len(logs) + 2
           status == IF i = 0 \/ i = 7 THEN "shipped" ELSE "blocked"
       IN  logs' = Append(logs, DailyLog(today - i, FALSE, "m", status))
    /\ UNCHANGED <<today, projects, decisions, flag, out, pc>>

\* test_circuit_breaker_no_trigger_healthy, the loop: today - i for i in range(5)
HealthyTestAdd ==
    /\ pc = HealthyTest
    /\ Len(logs) < 5
    /\ logs' = Append(logs, DailyLog(today - Len(logs), FALSE, "m", "shipped"))
    /\ UNCHANGED <<today, projects, decisions, flag, out, pc>>

\* commit, then should_trigger, reasons = check_circuit_breaker_conditions(...)
TestEvaluate ==
    /\ \/ pc = CompletionTest /\ Len(logs) = 10
       \/ pc = HealthyTest /\ Len(logs) = 5
    /\ out' = AnswerFor("evaluate", pc,
                        check_circuit_breaker_conditions(logs, projects, today))
    /\ pc' = "asserts"
    /\ UNCHANGED <<today, logs, projects, decisions, flag>>

NextFixture ==
    \/ CompletionTestAdd
    \/ HealthyTestAdd
    \/ TestEvaluate

SpecFixture == InitFixture /\ [][NextFixture]_vars

----------------------------------------------------------------------------
(* What the claims say of a store, counted on the rows themselves *)

\* the Monday on or before day d
MondayOf(d) == CHOOSE m \in (d - 6)..d : m % 7 = 0

\* the rows of daily_logs dated in the week k weeks before the current one
RowsOfWeek(k) ==
    {i \in 1..Len(logs) :
        /\ logs[i].date >= MondayOf(today) - 7 * k
        /\ logs[i].date <= MondayOf(today) - 7 * k + 6}
MissionsOfWeek(k) == Cardinality({i \in RowsOfWeek(k) : logs[i].mission # NULL})
ShippedOfWeek(k) ==
    Cardinality({i \in RowsOfWeek(k) : logs[i].mission_status = "shipped"})

\* the completion rate of week k is strictly below 60 (0 when no mission)
WeekBelow60(k) ==
    \/ MissionsOfWeek(k) = 0
    \/ 100 * ShippedOfWeek(k) < 60 * MissionsOfWeek(k)

\* logs with paralysis signals dated in the trailing 30 days
ParalysisRows ==
    {i \in 1..Len(logs) :
        /\ logs[i].paralysis_signals
        /\ logs[i].date >= today - 30
        /\ logs[i].date <= today}

ParalysisHolds == Cardinality(ParalysisRows) >= 5
CompletionHolds == WeekBelow60(0) /\ WeekBelow60(1)
StalledHolds ==
    /\ Cardinality({i \in 1..Len(projects) : projects[i].status = "active"}) >= 3
    /\ \E i \in 1..Len(logs) :
            logs[i].date = today /\ logs[i].mission_status = "blocked"

\* the rules named by a list of reasons, in order
RulesOf(reasons) == [i \in 1..Len(reasons) |-> reasons[i].rule]
HasReason(rule) == \E i \in 1..Len(out.value.reasons) : out.value.reasons[i].rule = rule

----------------------------------------------------------------------------
(* Properties of the evaluator and of the week statistics (SpecEval) *)

\* C4: should_trigger is true exactly when reasons is non-empty, and every
\* rule whose condition holds contributes its reason, in the order paralysis,
\* completion, stalled, whatever the outcome of the other rules.
C4_AllRulesCollected ==
    out.cmd = "evaluate" =>
        /\ out.value.should_trigger <=> (out.value.reasons # <<>>)
        /\ RulesOf(out.value.reasons) =
                (IF ParalysisHolds THEN <<"paralysis">> ELSE <<>>)
             \o (IF CompletionHolds THEN <<"completion">> ELSE <<>>)
             \o (IF StalledHolds THEN <<"stalled">> ELSE <<>>)

\* C4 witness: the three rules hold at once and the three reasons are returned.
C4_Witness ==
    /\ out.cmd = "evaluate"
    /\ ParalysisHolds /\ CompletionHolds /\ StalledHolds
    /\ Len(out.value.reasons) = 3

\* C5: the paralysis reason is returned exactly when at least 5 logs of the
\* trailing 30-day window have paralysis_signals true.
C5_ParalysisRule ==
    out.cmd = "evaluate" =>
        (HasReason("paralysis") <=> Cardinality(ParalysisRows) >= 5)

\* C5 witness: exactly 5 such logs, and the reason is returned with that count.
C5_Witness ==
    /\ out.cmd = "evaluate"
    /\ Cardinality(ParalysisRows) = 5
    /\ \E i \in 1..Len(out.value.reasons) :
            out.value.reasons[i] = [rule |-> "paralysis", episodes |-> 5]

\* C5, the claim's other case: 4 such logs do not trigger the reason.
C5_WitnessFour ==
    /\ out.cmd = "evaluate"
    /\ Cardinality(ParalysisRows) = 4
    /\ ~HasReason("paralysis")

\* C6: the completion reason is returned exactly when the completion rates
\* of the current week and of the previous week are both strictly below 60.
C6_CompletionRule ==
    out.cmd = "evaluate" =>
        (HasReason("completion") <=> (WeekBelow60(0) /\ WeekBelow60(1)))

\* C6 witness: a rate of exactly 60 (3 shipped of 5) in the current week
\* suppresses the reason although the previous week is below 60.
C6_Witness ==
    /\ out.cmd = "evaluate"
    /\ ShippedOfWeek(0) = 3 /\ MissionsOfWeek(0) = 5
    /\ ShippedOfWeek(1) = 1 /\ MissionsOfWeek(1) = 2
    /\ ~HasReason("completion")

\* C6, the positive case: both weeks strictly below 60, reason returned.
C6_WitnessBothLow ==
    /\ out.cmd = "evaluate"
    /\ ShippedOfWeek(0) = 1 /\ MissionsOfWeek(0) = 2
    /\ ShippedOfWeek(1) = 2 /\ MissionsOfWeek(1) = 4
    /\ HasReason("completion")

\* C7: the stalled reason is returned exactly when at least 3 projects are
\* active and a log for today exists whose mission_status is blocked.
C7_StalledRule ==
    out.cmd = "evaluate" => (HasReason("stalled") <=> StalledHolds)

\* C7 witness: 3 active projects, today's mission blocked, reason returned.
C7_Witness ==
    /\ out.cmd = "evaluate"
    /\ StalledHolds
    /\ HasReason("stalled")

\* C7, a negative case: today's mission is blocked but only 2 projects are active.
C7_WitnessTwoActive ==
    /\ out.cmd = "evaluate"
    /\ \E i \in 1..Len(logs) : logs[i].date = today /\ logs[i].mission_status = "blocked"
    /\ Cardinality({i \in 1..Len(projects) : projects[i].status = "active"}) = 2
    /\ ~HasReason("stalled")

\* C10: week_stats(k) counts exactly the logs dated from the Monday k weeks
\* before the current week's Monday through the following Sunday: total is
\* the number of them with a non-null mission, shipped the number with
\* mission_status shipped, completion_rate is shipped / total * 100, and 0
\* when total is 0.
C10_WeekStats ==
    out.cmd = "week_stats" =>
        /\ out.value.week_start = MondayOf(today) - 7 * out.arg
        /\ out.value.total = MissionsOfWeek(out.arg)
        /\ out.value.shipped = ShippedOfWeek(out.arg)
        /\ out.value.completion_rate.den > 0
        /\ IF MissionsOfWeek(out.arg) = 0
           THEN out.value.completion_rate.num = 0
           ELSE out.value.completion_rate.num * MissionsOfWeek(out.arg)
                    = 100 * ShippedOfWeek(out.arg) * out.value.completion_rate.den

\* C10 witness: the previous week is asked for and holds 3 shipped of 5
\* missions, which gives 60, while the current week holds another number.
C10_Witness ==
    /\ out.cmd = "week_stats"
    /\ out.arg = 1
    /\ out.value.total = 5 /\ out.value.shipped = 3
    /\ out.value.completion_rate = [num |-> 60, den |-> 1]
    /\ MissionsOfWeek(0) # 5

\* C10, the empty case: a week whose only logs have no mission has rate 0.
C10_WitnessNoMission ==
    /\ out.cmd = "week_stats"
    /\ RowsOfWeek(out.arg) # {}
    /\ out.value.total = 0
    /\ out.value.completion_rate = [num |-> 0, den |-> 1]

\* the rows of daily_logs dated in [today - days, today]
WindowRows(days) ==
    {i \in 1..Len(logs) : logs[i].date >= today - days /\ logs[i].date <= today}

\* C11: paralysis_rate(days) counts exactly the logs dated in
\* [today - days, today], with or without a mission: total_days is their
\* number, paralysis_days the number of them with paralysis_signals true, and
\* the rate is paralysis_days / total_days * 100 (0 when there is none).
C11_ParalysisRate ==
    out.cmd = "paralysis_rate" =>
        LET rows == WindowRows(out.arg)
            signalled == {i \in rows : logs[i].paralysis_signals}
        IN  /\ out.value.total_days = Cardinality(rows)
            /\ out.value.paralysis_days = Cardinality(signalled)
            /\ out.value.paralysis_rate.den > 0
            /\ IF rows = {}
               THEN out.value.paralysis_rate.num = 0
               ELSE out.value.paralysis_rate.num * Cardinality(rows)
                        = 100 * Cardinality(signalled) * out.value.paralysis_rate.den

\* C11 witness: 3 of the 10 logs of the 30-day window have paralysis signals,
\* which gives 30; the 3 carry no mission, and an older log is left out.
C11_Witness ==
    /\ out.cmd = "paralysis_rate" /\ out.arg = 30
    /\ out.value.total_days = 10 /\ out.value.paralysis_days = 3
    /\ out.value.paralysis_rate = [num |-> 30, den |-> 1]
    /\ \A i \in WindowRows(30) : logs[i].paralysis_signals => logs[i].mission = NULL
    /\ \E i \in 1..Len(logs) : logs[i].date < today - 30

\* C11, a short window: paralysis_rate(0) counts today's log alone.
C11_WitnessToday ==
    /\ out.cmd = "paralysis_rate" /\ out.arg = 0
    /\ out.value.total_days = 1
    /\ Len(logs) > 1

----------------------------------------------------------------------------
(* Properties of the statistics on empty windows (SpecStats) and of          *)
(* get_week_start (SpecWeek)                                                 *)

\* the rows of decisions dated in [today - days, today]
DecisionRows(days) ==
    {i \in 1..Len(decisions) :
        decisions[i].date >= today - days /\ decisions[i].date <= today}

\* C12: when no record matches the window asked for, week_stats,
\* paralysis_rate and decision_stats return 0 for every count, rate and
\* average; decision_stats also returns 0 for avg_time and under_20min_rate
\* when decisions match but none has a recorded time_to_decide.
C12_ZeroOnEmptyWindow ==
    /\ (out.cmd = "week_stats" /\ RowsOfWeek(out.arg) = {}) =>
            /\ out.value.shipped = 0 /\ out.value.total = 0
            /\ out.value.completion_rate = ZeroRate
    /\ (out.cmd = "paralysis_rate" /\ WindowRows(out.arg) = {}) =>
            /\ out.value.paralysis_days = 0 /\ out.value.total_days = 0
            /\ out.value.paralysis_rate = ZeroRate
    /\ (out.cmd = "decision_stats" /\ DecisionRows(out.arg) = {}) =>
            /\ out.value.total_decisions = 0 /\ out.value.paralysis_decisions = 0
            /\ out.value.avg_time = ZeroRate
            /\ out.value.under_20min_rate = ZeroRate
    /\ ( /\ out.cmd = "decision_stats"
         /\ \A i \in DecisionRows(out.arg) : decisions[i].time_to_decide = NoTime ) =>
            /\ out.value.avg_time = ZeroRate
            /\ out.value.under_20min_rate = ZeroRate

\* C12 witness: the table holds decisions, all older than the window asked
\* for, one of them made under paralysis with a recorded time; all is 0.
C12_Witness ==
    /\ out.cmd = "decision_stats" /\ out.arg = 30
    /\ Len(decisions) = 2 /\ DecisionRows(30) = {}
    /\ \E i \in 1..2 : decisions[i].made_under_paralysis /\ decisions[i].time_to_decide # NoTime
    /\ out.value.total_decisions = 0

\* C12, second case: two decisions in the window, neither with a time.
C12_WitnessUntimed ==
    /\ out.cmd = "decision_stats"
    /\ Cardinality(DecisionRows(out.arg)) = 2
    /\ \A i \in DecisionRows(out.arg) : decisions[i].time_to_decide = NoTime
    /\ out.value.total_decisions = 2
    /\ out.value.avg_time = ZeroRate

\* C12, the two other statistics: a log exists, but outside the week and
\* outside the days asked for.
C12_WitnessWeek ==
    /\ out.cmd = "week_stats" /\ logs # <<>> /\ RowsOfWeek(out.arg) = {}
    /\ out.value.completion_rate = ZeroRate
C12_WitnessParalysis ==
    /\ out.cmd = "paralysis_rate" /\ logs # <<>> /\ WindowRows(out.arg) = {}
    /\ out.value.paralysis_rate = ZeroRate

\* week k's completion rate is strictly greater than week j's (a week
\* without a mission has rate 0)
WeekRateGreater(k, j) ==
    LET nk == IF MissionsOfWeek(k) = 0 THEN 0 ELSE 100 * ShippedOfWeek(k)
        dk == IF MissionsOfWeek(k) = 0 THEN 1 ELSE MissionsOfWeek(k)
        nj == IF MissionsOfWeek(j) = 0 THEN 0 ELSE 100 * ShippedOfWeek(j)
        dj == IF MissionsOfWeek(j) = 0 THEN 1 ELSE MissionsOfWeek(j)
    IN  nk * dj > nj * dk

\* C14: week_stats(k) returns for every k >= 0; it calls itself on k + 1
\* only while k < 12, so that the weeks it reads are k .. 12 when k < 12 and
\* k alone otherwise; improving is true exactly when k < 12 and the
\* completion rate of week k is strictly greater than that of week k + 1.
C14_TrendBounded ==
    out.cmd = "week_stats" =>
        /\ get_week_stats_weeks(out.arg) =
                (IF out.arg < 12 THEN out.arg..12 ELSE {out.arg})
        /\ out.value.improving <=>
                (out.arg < 12 /\ WeekRateGreater(out.arg, out.arg + 1))

\* C14 witness: week 12 has a higher rate than week 13, and week_stats(12)
\* does not report an improvement.
C14_Witness ==
    /\ out.cmd = "week_stats" /\ out.arg = 12
    /\ WeekRateGreater(12, 13)
    /\ ~out.value.improving

\* C14, the last comparison made: week 11 against week 12.
C14_WitnessEleven ==
    /\ out.cmd = "week_stats" /\ out.arg = 11
    /\ WeekRateGreater(11, 12)
    /\ out.value.improving

\* C14, equal rates: both weeks at 50, no improvement.
C14_WitnessEqual ==
    /\ out.cmd = "week_stats" /\ out.arg = 0
    /\ ShippedOfWeek(0) = 1 /\ MissionsOfWeek(0) = 2
    /\ ShippedOfWeek(1) = 1 /\ MissionsOfWeek(1) = 2
    /\ ~out.value.improving

\* C13: for every date d, week_start(d) is a Monday on or before d, at most
\* 6 days before it, and week_start of a Monday is that Monday.
C13_WeekStartIsMonday ==
    out.cmd = "week_start" =>
        LET d == IF out.arg = <<>> THEN today ELSE out.arg[1]
        IN  /\ out.value % 7 = 0
            /\ out.value <= d
            /\ d - out.value \in 0..6
            /\ (d % 7 = 0) => out.value = d

\* C13 witness: a Sunday, whose week started 6 days before.
C13_Witness ==
    /\ out.cmd = "week_start" /\ out.arg # <<>>
    /\ out.arg[1] % 7 = 6
    /\ out.value = out.arg[1] - 6

\* C13, a Monday asked for: the answer is the date itself.
C13_WitnessMonday ==
    /\ out.cmd = "week_start" /\ out.arg # <<>>
    /\ out.arg[1] % 7 = 0
    /\ out.value = out.arg[1]

----------------------------------------------------------------------------
(* Properties of the two tests (SpecFixture) *)

\* C8: with logs on today and the 4 preceding days (only today's shipped) and
\* on the days 7 to 11 days ago (only the one 7 days ago shipped), evaluate
\* returns should_trigger true with the completion reason, on whatever day of
\* the week today falls.
C8_CompletionTestTriggers ==
    (out.cmd = "evaluate" /\ out.arg = CompletionTest) =>
        (out.value.should_trigger /\ HasReason("completion"))

\* C8, what the code does: on a Monday the current week holds today's shipped
\* mission alone (100%), and nothing is returned; on the other days both
\* weeks are below 60 and the completion reason is returned.
C8_CompletionTestByWeekday ==
    (out.cmd = "evaluate" /\ out.arg = CompletionTest) =>
        IF today % 7 = 0
        THEN out.value = [should_trigger |-> FALSE, reasons |-> <<>>]
        ELSE out.value.should_trigger /\ RulesOf(out.value.reasons) = <<"completion">>

C8_MondayRun ==
    /\ out.cmd = "evaluate" /\ out.arg = CompletionTest
    /\ today % 7 = 0

\* C9: with logs on today and the 4 preceding days, every mission shipped and
\* no paralysis signals, evaluate returns should_trigger false and no reason,
\* on whatever day of the week today falls.
C9_HealthyTestQuiet ==
    (out.cmd = "evaluate" /\ out.arg = HealthyTest) =>
        out.value = [should_trigger |-> FALSE, reasons |-> <<>>]

\* C9 witness: the test ran on a Friday, when the previous week holds no log
\* at all (rate 0) and the current week holds all five.
C9_Witness ==
    /\ out.cmd = "evaluate" /\ out.arg = HealthyTest
    /\ today % 7 = 4
    /\ RowsOfWeek(1) = {} /\ Cardinality(RowsOfWeek(0)) = 5
    /\ ~out.value.should_trigger

\* C9, another day: on a Monday four of the five logs lie in the previous week.
C9_WitnessMonday ==
    /\ out.cmd = "evaluate" /\ out.arg = HealthyTest
    /\ today % 7 = 0
    /\ Cardinality(RowsOfWeek(1)) = 4
    /\ ~out.value.should_trigger

----------------------------------------------------------------------------
(* Properties of the daily commands (SpecDaily) *)

\* no two rows of daily_logs carry the same date
OneLogPerDate ==
    \A i, j \in 1..Len(logs) : logs[i].date = logs[j].date => i = j

\* C16: after any sequence of daily check-in and daily complete commands the
\* store holds at most one daily log per calendar date, and a check-in on a
\* date that already has a log, complete or partial, creates no log and
\* changes nothing.
C16_OneLogPerDate ==
    /\ []OneLogPerDate
    /\ [][ ( /\ out'.cmd = "daily checkin"
              /\ \E i \in 1..Len(logs) : logs[i].date = today
              /\ \E paralysis \in BOOLEAN, action \in {"1", "2", "3"},
                    called \in BOOLEAN, mission \in Missions :
                        DailyCheckin(paralysis, action, called, mission) )
            => ( /\ logs' = logs
                 /\ projects' = projects
                 /\ decisions' = decisions
                 /\ flag' = flag ) ]_vars

\* C16 witness: a check-in was refused on the second day, whose log is a
\* partial one; the store holds the logs of the two days.
C16_Witness ==
    /\ out = Say("daily checkin", "Already checked in today!")
    /\ Len(logs) = 2
    /\ logs[2].date = today /\ logs[2].mission = NULL
    /\ logs[1].date = today - 1

\* C16, a complete log: the check-in was refused after the mission shipped.
C16_WitnessShipped ==
    /\ out = Say("daily checkin", "Already checked in today!")
    /\ \E i \in 1..Len(logs) : logs[i].date = today /\ logs[i].mission_status = "shipped"

\* no log is dated after today: the clock only moves forward
NoLogAfterToday == \A i \in 1..Len(logs) : logs[i].date <= today

----------------------------------------------------------------------------
(* Properties of the project commands (SpecProject) *)

\* the rows with status active, counted on the table itself
ActiveRows(P) == {i \in 1..Len(P) : P[i].status = "active"}
FinishedRows(P) == {i \in 1..Len(P) : P[i].status \in {"shipped", "killed"}}

\* C1: after any sequence of project add, complete and kill commands of one
\* process, at most 3 projects have status active.
C1_ActiveNeverExceedsCap == Cardinality(ActiveRows(projects)) <= 3

\* C1 witness: a fourth row was added after a slot had been freed, and the
\* table is at the cap again.
C1_Witness ==
    /\ out = Exit("project add", 0)
    /\ Len(projects) = 4
    /\ Cardinality(ActiveRows(projects)) = 3

\* C2: can_add_project answers true exactly when fewer than 3 projects are
\* active, whatever the number of shipped or killed projects.
C2_CanAddIffBelowCap ==
    out.cmd = "can_add_project" =>
        (out.value <=> Cardinality(ActiveRows(projects)) < 3)

\* C2 witness: the answer is false with 3 active projects beside a finished one.
C2_Witness ==
    /\ out = Answer("can_add_project", FALSE)
    /\ Cardinality(ActiveRows(projects)) = 3
    /\ FinishedRows(projects) # {}

\* C2, second case of the claim: the answer is true with 2 active projects.
C2_WitnessBelowCap ==
    /\ out = Answer("can_add_project", TRUE)
    /\ Cardinality(ActiveRows(projects)) = 2
    /\ FinishedRows(projects) # {}

\* C3: a project add invoked while 3 projects are active exits with an error
\* and leaves the store unchanged: no row is created, no row is modified.
C3_AddAtCapRefused ==
    [][ ( /\ \E has_deadline \in BOOLEAN, date_str \in DateInputs :
                ProjectAdd(has_deadline, date_str)
          /\ Cardinality(ActiveRows(projects)) = 3 )
        => ( /\ out' = Exit("project add", 1)
             /\ projects' = projects
             /\ logs' = logs
             /\ decisions' = decisions ) ]_vars

\* C3 witness: the last command was a project add that exited with an error
\* while 3 projects were active.
C3_Witness ==
    /\ out = Exit("project add", 1)
    /\ Cardinality(ActiveRows(projects)) = 3

\* C17: once a project's status is shipped or killed, no command changes its
\* status or completed_at again; the only status transitions are
\* active -> shipped and active -> killed.
C17_TerminalStatesFinal ==
    [][ \A i \in 1..Len(projects) :
            /\ projects[i].status \in {"shipped", "killed"} =>
                    /\ projects'[i].status = projects[i].status
                    /\ projects'[i].completed_at = projects[i].completed_at
            /\ projects'[i].status # projects[i].status =>
                    /\ projects[i].status = "active"
                    /\ projects'[i].status \in {"shipped", "killed"} ]_vars

\* C17, what the code does: complete leaves a finished project alone, while
\* a confirmed kill sets killed and a new completed_at on the project it
\* finds, whatever its status; no project becomes active again.
C17_KillIgnoresStatus ==
    [][ \A i \in 1..Len(projects) :
            projects'[i].status # projects[i].status =>
                \/ projects[i].status = "active" /\ projects'[i].status = "shipped"
                \/ /\ projects'[i].status = "killed"
                   /\ \E project_id \in IdArguments(projects) :
                            ProjectKill(project_id, TRUE) ]_vars

\* C17: a shipped project has been killed.
C17_ShippedThenKilled ==
    /\ out = Exit("project kill", 0)
    /\ \E i \in 1..Len(projects) :
            projects[i].status = "killed" /\ projects[i].shipped_early # NULL

\* C18: project complete on an active project sets status to shipped, sets
\* completed_at, and sets shipped_early to true exactly when the project has
\* a target date on or after today; no other step changes shipped_early,
\* which is null on a new project, so that it stays null on every project
\* that was never completed, killed ones included.
C18_ShippedEarly ==
    [][ /\ \A project_id \in IdArguments(projects) :
            LET i == FindProject(projects, project_id)
            IN  ( /\ ProjectComplete(project_id)
                  /\ i # 0
                  /\ projects[i].status = "active" )
                => ( /\ projects'[i].status = "shipped"
                     /\ projects'[i].completed_at = today
                     /\ projects'[i].shipped_early =
                            (IF /\ projects[i].target_date # NoDate
                                /\ projects[i].target_date >= today
                             THEN "True" ELSE "False") )
        /\ \A i \in 1..Len(projects') :
            IF i > Len(projects)
            THEN projects'[i].shipped_early = NULL
            ELSE projects'[i].shipped_early # projects[i].shipped_early =>
                    /\ projects[i].status = "active"
                    /\ projects'[i].status = "shipped" ]_vars

\* C18 witness: a project whose target date is today was shipped, early.
C18_Witness ==
    /\ out = Exit("project complete", 0)
    /\ \E i \in 1..Len(projects) :
            /\ projects[i].status = "shipped"
            /\ projects[i].target_date = today
            /\ projects[i].completed_at = today
            /\ projects[i].shipped_early = "True"

\* C18, the target date has passed: shipped, not early.
C18_WitnessLate ==
    \E i \in 1..Len(projects) :
        /\ projects[i].status = "shipped"
        /\ projects[i].target_date = today - 1
        /\ projects[i].shipped_early = "False"

\* C18, no target date: shipped, not early.
C18_WitnessNoTarget ==
    \E i \in 1..Len(projects) :
        /\ projects[i].status = "shipped"
        /\ projects[i].target_date = NoDate
        /\ projects[i].shipped_early = "False"

\* C18, a project killed while active: shipped_early is still null.
C18_WitnessKilled ==
    /\ out = Exit("project kill", 0)
    /\ \E i \in 1..Len(projects) :
            /\ projects[i].status = "killed"
            /\ projects[i].target_date = today
            /\ projects[i].shipped_early = NULL

----------------------------------------------------------------------------
(* Properties of the whole command set (Spec) *)

\* the step writes no table and leaves the flag file alone
StoreUntouched ==
    /\ logs' = logs /\ projects' = projects
    /\ decisions' = decisions /\ flag' = flag

\* C15: today_status, week_stats, paralysis_rate, decision_stats,
\* active_projects, can_add_project and evaluate leave every daily log,
\* project, decision and the mode flag unchanged, so that the same query
\* asked again right after returns the same result: the answer given is the
\* answer the store gives after the call.
C15_QueriesReadOnly ==
    [][ /\ (out'.cmd = "today_status" /\ QueryTodayStatus) =>
                /\ StoreUntouched
                /\ out'.value = get_today_status(logs', today')
        /\ \A weeks_ago \in 0..MaxWeeksAgo :
            (out'.cmd = "week_stats" /\ QueryWeekStats(weeks_ago)) =>
                /\ StoreUntouched
                /\ out'.value = get_week_stats(logs', today', weeks_ago)
        /\ \A days \in ParalysisDays :
            (out'.cmd = "paralysis_rate" /\ QueryParalysisRate(days)) =>
                /\ StoreUntouched
                /\ out'.value = get_paralysis_rate(logs', today', days)
        /\ \A days \in DecisionDays :
            (out'.cmd = "decision_stats" /\ QueryDecisionStats(days)) =>
                /\ StoreUntouched
                /\ out'.value = get_decision_stats(decisions', today', days)
        /\ (out'.cmd = "active_projects" /\ QueryActiveProjects) =>
                /\ StoreUntouched
                /\ out'.value = get_active_projects(projects')
        /\ (out'.cmd = "can_add_project" /\ QueryCanAdd) =>
                /\ StoreUntouched
                /\ out'.value = can_add_project(projects')
        /\ (out'.cmd = "evaluate" /\ QueryEvaluate) =>
                /\ StoreUntouched
                /\ out'.value = check_circuit_breaker_conditions(logs', projects', today')
      ]_vars

\* C15 witness: today_status answered that there is no log today, on a store
\* with projects, decisions and an active flag, and there is none afterwards.
C15_Witness ==
    /\ out = Answer("today_status", <<>>)
    /\ FindLog(logs, today) = 0
    /\ projects # <<>> /\ decisions # <<>> /\ flag.active

\* C15, other queries: evaluate answered with a reason, decision_stats with
\* a count, and the tables are as they were.
C15_WitnessEvaluate ==
    /\ out.cmd = "evaluate" /\ out.value.should_trigger
    /\ logs # <<>> /\ Len(projects) >= 3
C15_WitnessDecisions ==
    /\ out.cmd = "decision_stats" /\ out.value.total_decisions = 2
    /\ Len(decisions) = 2

\* the inputs of an activation and the record they make
ActivationOf(choice, typed, env, name, date) ==
    [active |-> TRUE,
     primary_project |-> IF get_active_projects(projects) = <<>> THEN typed
                         ELSE get_active_projects(projects)[choice].name,
     external_contact |-> IF env = <<>> THEN name ELSE env[1],
     activated_at |-> date]

\* C19: the mode flag goes from inactive to active only at the end of an
\* activation in which the human confirmed the external-accountability call,
\* and the record written then holds the primary project, the external
\* contact and the activation time; when the confirmation is declined the
\* flag stays inactive and nothing is written.
C19_ActivationRecord ==
    [][ /\ (~flag.active /\ flag'.active) =>
            \E choice \in Choices(projects), typed \in PrimaryTexts,
               name \in ContactTexts, a \in ActivationAnswers(today) :
                /\ EmergencyActivate(choice, typed, a.env, name, TRUE, a.date)
                /\ flag' = ActivationOf(choice, typed, a.env, name, [date |-> today])
        /\ ( /\ out'.cmd = "emergency activate"
             /\ \E choice \in Choices(projects), typed \in PrimaryTexts,
                   name \in ContactTexts, a \in ActivationAnswers(today) :
                    EmergencyActivate(choice, typed, a.env, name, FALSE, a.date) )
            => ( /\ flag' = flag /\ logs' = logs
                 /\ projects' = projects /\ decisions' = decisions )
      ]_vars

\* C19, what the code does: the same, except that activated_at holds what the
\* human answered at the prompt "Date" (the word today by default), not the
\* time of the activation.
C19_ActivationNeedsConfirmation ==
    [][ /\ (~flag.active /\ flag'.active) =>
            \E choice \in Choices(projects), typed \in PrimaryTexts,
               name \in ContactTexts, a \in ActivationAnswers(today) :
                /\ EmergencyActivate(choice, typed, a.env, name, TRUE, a.date)
                /\ flag' = ActivationOf(choice, typed, a.env, name, a.date)
        /\ ( /\ out'.cmd = "emergency activate"
             /\ \E choice \in Choices(projects), typed \in PrimaryTexts,
                   name \in ContactTexts, a \in ActivationAnswers(today) :
                    EmergencyActivate(choice, typed, a.env, name, FALSE, a.date) )
            => ( /\ flag' = flag /\ logs' = logs
                 /\ projects' = projects /\ decisions' = decisions )
      ]_vars

\* C19: an activation was confirmed and the record holds yesterday's date.
C19_WrongDateRecorded ==
    /\ out = Say("emergency activate", "CIRCUIT BREAKER ACTIVE")
    /\ flag.active /\ flag.activated_at = [date |-> today - 1]

\* C19: an activation was declined and the flag is inactive.
C19_Declined ==
    /\ out = Say("emergency activate",
                 "Cannot activate circuit breaker without external accountability.")
    /\ ~flag.active

\* C20: once active, the mode flag stays active, with its contents, through
\* every command except an emergency deactivate in which the human confirms
\* both the external validation and the deactivation; declining either
\* leaves the flag as it is.
C20_StaysActive ==
    [][ flag.active =>
            /\ flag' # flag =>
                    (EmergencyDeactivate(TRUE, TRUE) /\ flag' = NoFlag)
            /\ ( /\ out'.cmd = "emergency deactivate"
                 /\ \E validated \in BOOLEAN, confirm \in BOOLEAN :
                        /\ ~(validated /\ confirm)
                        /\ EmergencyDeactivate(validated, confirm) )
                => flag' = flag
      ]_vars

\* C20 witness: the validation was confirmed, the deactivation declined, and
\* the flag is still active.
C20_Witness ==
    /\ out = Say("emergency deactivate", "Staying in simplified mode")
    /\ flag.active

\* C20, other commands run while the flag is active: a second activate, a
\* project added, a check-in.
C20_WitnessActivate ==
    /\ out = Say("emergency activate", "Circuit breaker already active")
    /\ flag.active
C20_WitnessAdd ==
    /\ out = Exit("project add", 0)
    /\ flag.active
C20_WitnessCheckin ==
    /\ out.cmd = "daily checkin" /\ logs # <<>>
    /\ flag.active

\* C20, the one way out: both confirmations given, the flag is gone.
C20_WitnessDeactivated ==
    /\ out = Say("emergency deactivate", "Circuit breaker deactivated")
    /\ ~flag.active

----------------------------------------------------------------------------
(* The simplified mode: activate_circuit_breaker, project add *)

\* C21: while the mode flag is active at most one project has status active,
\* and a project add run while it is active creates no project.
C21_OneProjectWhileActive ==
    /\ [](flag.active => Cardinality(ActiveRows(projects)) <= 1)
    /\ [][ ( /\ out'.cmd = "project add"
             /\ flag.active
             /\ \E has_deadline \in BOOLEAN : ProjectAdd(has_deadline, <<"bad">>) )
           => projects' = projects ]_vars

\* what the code does: the activation leaves the projects table as it was,
\* whatever the number of active projects
C21_ActivationKeepsProjects ==
    [][ ( /\ out'.cmd = "emergency activate"
          /\ \E choice \in Choices(projects), typed \in PrimaryTexts,
                name \in ContactTexts, called \in BOOLEAN,
                a \in ActivationAnswers(today) :
                    EmergencyActivate(choice, typed, a.env, name, called, a.date) )
           => projects' = projects ]_vars

\* the flag was activated with three active projects; a project was added
\* while the flag was active
C21_ActiveWithThree ==
    /\ out = Say("emergency activate", "CIRCUIT BREAKER ACTIVE")
    /\ flag.active
    /\ Cardinality(ActiveRows(projects)) = 3
C21_AddedUnderFlag ==
    /\ out = Exit("project add", 0)
    /\ flag.active
    /\ Cardinality(ActiveRows(projects)) = 2

----------------------------------------------------------------------------
(* The decision protocol: run_decision_protocol *)

\* C22: a run of the decision protocol that has started (the user answered
\* yes to "Ready to commit to deciding?") ends only with a Decision record of
\* today, made under paralysis, added to the table.
C22_ProtocolStoresDecision ==
    [][ ( /\ out'.cmd = "daily decide"
          /\ \E interrupt \in Interrupts, confirmed \in BOOLEAN, elapsed \in Elapsed :
                DailyDecide(TRUE, interrupt, confirmed, elapsed) )
           => /\ Len(decisions') = Len(decisions) + 1
              /\ decisions'[Len(decisions')].date = today
              /\ decisions'[Len(decisions')].made_under_paralysis ]_vars

\* what the code does: a run that is neither interrupted before the commit
\* nor declined at the last confirmation stores exactly one Decision
C22_ConfirmedRunStores ==
    [][ ( /\ out'.cmd = "daily decide"
          /\ \E interrupt \in Interrupts \ {"before"}, elapsed \in Elapsed :
                DailyDecide(TRUE, interrupt, TRUE, elapsed) )
           => /\ Len(decisions') = Len(decisions) + 1
              /\ decisions'[Len(decisions')].date = today
              /\ decisions'[Len(decisions')].made_under_paralysis ]_vars

\* the protocol ended at the declined confirmation, or by Ctrl-C, with no
\* decision in the table
C22_DeclinedRun ==
    /\ out = Say("daily decide", "Communication = commitment. Try again.")
    /\ decisions = <<>>
C22_InterruptedRun ==
    /\ out = Say("daily decide", "Cannot escape without deciding!")
    /\ decisions = <<>>
C22_StoredRun ==
    /\ out = Say("daily decide", "Took longer")
    /\ Len(decisions) = 1 /\ ~under_20_minutes(decisions[1])

----------------------------------------------------------------------------
(* The life of a daily log: checkin creates, complete records the status *)

\* a row is created with no status and no blocker; a status is recorded only
\* by daily complete
CreatedWithoutStatus ==
    /\ Len(logs') >= Len(logs)
    /\ \A i \in (Len(logs) + 1)..Len(logs') :
            logs'[i].mission_status = NULL /\ logs'[i].blocker_type = NULL
    /\ \A i \in 1..Len(logs) :
            (logs[i].mission_status = NULL /\ logs'[i].mission_status # NULL)
                => out'.cmd = "daily complete"

\* C23: a daily log is created with mission_status null, the status stays
\* null until daily complete records it, and a log whose status has been
\* recorded keeps its mission_status and blocker_type through every command.
C23_StatusSetOnce ==
    [][ /\ CreatedWithoutStatus
        /\ \A i \in 1..Len(logs) :
                logs[i].mission_status # NULL =>
                    /\ logs'[i].mission_status = logs[i].mission_status
                    /\ logs'[i].blocker_type = logs[i].blocker_type ]_vars

\* what the code does: the first half of C23
C23_CreatedNull == [][CreatedWithoutStatus]_vars

\* a log completed as blocked and then completed again as shipped: the
\* status is the second one, the blocker the one of the first
C23_CompletedTwice ==
    \E i \in 1..Len(logs) :
        /\ logs[i].mission_status = "shipped"
        /\ logs[i].blocker_type # NULL

----------------------------------------------------------------------------
(* The cap under interleaved invocations of project add *)

\* C24: the cap check and the insert of project add are separate steps, so
\* the cap holds for one process only.  With several invocations interleaved
\* the active projects may pass the cap, by at most one project for each
\* further invocation, and an insert takes them past the cap only when another
\* invocation has inserted since this one's check.
C24_CapPerProcess ==
    /\ [](Cardinality(ActiveRows(projects))
            + Cardinality({p \in Procs : pc[p] = "prompts"})
                <= ProjectCap + MaxProcs - 1)
    /\ [][ \A p \in Procs :
            ( /\ pc[p] = "prompts" /\ pc'[p] = "done"
              /\ Cardinality(ActiveRows(projects')) > ProjectCap
              /\ projects' # projects )
                => \E q \in Procs \ {p} : pc[q] = "done" ]_vars

\* C24 witness: from two active projects, two invocations both passed the
\* check and both inserted: four active projects.
C24_Witness ==
    /\ Cardinality(ActiveRows(projects)) = ProjectCap + 1
    /\ Cardinality({p \in Procs : pc[p] = "done"}) >= 2
    /\ out = Exit("project add", 0)

\* C24, the moment in between: two active projects, two invocations at the
\* prompts.
C24_WitnessBothPassed ==
    /\ Cardinality(ActiveRows(projects)) = 2
    /\ Cardinality({p \in Procs : pc[p] = "prompts"}) = 2

----------------------------------------------------------------------------
(* project kill: the slot it frees *)

\* what a confirmed kill of row i leaves: the row killed today, the others
\* as they were
KilledRow(i) ==
    /\ Len(projects') = Len(projects)
    /\ projects'[i].status = "killed"
    /\ projects'[i].completed_at = today
    /\ \A j \in 1..Len(projects) : j # i => projects'[j] = projects[j]

\* C25: a confirmed kill of a project that is found leaves exactly one active
\* project less, the project killed with completed_at set and every other
\* project unchanged; an unconfirmed kill changes nothing.
C25_KillFreesSlot ==
    [][ \A project_id \in IdArguments(projects) :
            LET i == FindProject(projects, project_id)
            IN  /\ ( /\ out'.cmd = "project kill"
                     /\ i # 0
                     /\ ProjectKill(project_id, TRUE) )
                        => /\ KilledRow(i)
                           /\ Cardinality(ActiveRows(projects'))
                                = Cardinality(ActiveRows(projects)) - 1
                /\ ( /\ out'.cmd = "project kill"
                     /\ ProjectKill(project_id, FALSE) )
                        => projects' = projects ]_vars

\* what the code does: the slot is freed when the project killed was active;
\* a project that was shipped or killed already is written as killed today
\* all the same and no slot is freed
C25_KillOfActiveFreesSlot ==
    [][ \A project_id \in IdArguments(projects) :
            LET i == FindProject(projects, project_id)
            IN  /\ ( /\ out'.cmd = "project kill"
                     /\ i # 0
                     /\ ProjectKill(project_id, TRUE) )
                        => /\ KilledRow(i)
                           /\ Cardinality(ActiveRows(projects'))
                                = Cardinality(ActiveRows(projects))
                                    - (IF projects[i].status = "active" THEN 1 ELSE 0)
                /\ ( /\ out'.cmd = "project kill"
                     /\ ProjectKill(project_id, FALSE) )
                        => projects' = projects ]_vars

\* a kill was confirmed and the cap is still reached: the project it wrote as
\* killed held no slot
C25_KilledAtCap ==
    /\ out = Exit("project kill", 0)
    /\ Cardinality(ActiveRows(projects)) = ProjectCap
    /\ \E i \in 1..Len(projects) : projects[i].status = "killed"

----------------------------------------------------------------------------
(* The partial log of a check-in interrupted by paralysis *)

\* today's log is the partial one: paralysis recorded, no mission
PartialToday ==
    /\ FindLog(logs, today) # 0
    /\ logs[FindLog(logs, today)].paralysis_signals
    /\ logs[FindLog(logs, today)].mission = NULL

\* a check-in or a complete, with some answers, that leaves today's log with
\* a mission
GivesMission ==
    /\ \/ \E paralysis \in BOOLEAN, action \in {"1", "2", "3"}, called \in BOOLEAN,
             mission \in Missions :
                DailyCheckin(paralysis, action, called, mission)
       \/ \E status \in Statuses, blocker \in Blockers : DailyComplete(status, blocker)
    /\ \E i \in 1..Len(logs') : logs'[i].date = today /\ logs'[i].mission # NULL

\* C26: after a check-in interrupted by paralysis option 1 has stored the
\* partial log, the check-in can still be completed that day: while today's
\* log is the partial one, some check-in or complete command gives today's
\* log a mission (and a complete then records a status for it).
C26_PartialCanBeCompleted == PartialToday => ENABLED GivesMission

\* what the code does: while the date is the same no check-in and no
\* complete changes the partial log, so it never gets a mission or a status
C26_PartialStaysPartial ==
    [][ (PartialToday /\ today' = today) => (logs' = logs /\ PartialToday') ]_vars

\* the partial log is stored, a second check-in was refused, a complete was
\* refused
C26_CheckinRefused ==
    /\ PartialToday
    /\ out = Say("daily checkin", "Already checked in today!")
C26_CompleteRefused ==
    /\ PartialToday
    /\ out = Say("daily complete", "No mission set for today")

\* on a day without a log the same commands do give the log a mission
C26_FreshDayCanBeCompleted == FindLog(logs, today) = 0 /\ ENABLED GivesMission

----------------------------------------------------------------------------
(* The statuses daily complete records, and the weekly rate they give *)

\* a status is recorded only on a log with a mission, and it is one of the
\* three valid ones
StatusOnlyWithMission ==
    \A i \in 1..Len(logs) :
        logs[i].mission_status # NULL =>
            /\ logs[i].mission \notin {NULL, ""}
            /\ logs[i].mission_status \in {"shipped", "blocked", "deferred"}

\* in the week k weeks ago shipped <= total and the rate is within 0..100
RateWithinBounds(k) ==
    LET w == get_week_stats(logs, today, k)
    IN  /\ w.shipped <= w.total
        /\ ~RateLess(w.completion_rate, 0)
        /\ ~RateGreater(w.completion_rate, [num |-> 100, den |-> 1])

\* a complete that stops at one of its three tests
CompleteRefused ==
    /\ out'.cmd = "daily complete"
    /\ out'.msg \in {"No check-in found for today", "No mission set for today",
                     "Invalid status"}
    /\ \E status \in Statuses, blocker \in Blockers : DailyComplete(status, blocker)

\* C27: in every store reached through check-in and complete a log has a
\* mission_status only if it has a mission, and the status is shipped, blocked
\* or deferred; a complete with no log, no mission or an invalid status
\* changes nothing; so in every week shipped <= total and the completion rate
\* lies between 0 and 100.
C27_StatusNeedsMission ==
    /\ [](StatusOnlyWithMission /\ \A k \in 0..MaxWeeksAgo : RateWithinBounds(k))
    /\ [][CompleteRefused => logs' = logs]_vars

\* C27 witness: two logs with a mission in the week, one shipped and one
\* left open: the rate is 50.
C27_Witness ==
    /\ out = Say("daily complete", "shipped")
    /\ get_week_stats(logs, today, 0).total = 2
    /\ get_week_stats(logs, today, 0).shipped = 1
    /\ get_week_stats(logs, today, 0).completion_rate = Percent(1, 2)

\* C27, the refusals: no mission on the partial log, on the log with the
\* empty mission, and a status that is not valid.
C27_WitnessNoMission ==
    /\ out = Say("daily complete", "No mission set for today")
    /\ PartialToday
C27_WitnessEmptyMission ==
    /\ out = Say("daily complete", "No mission set for today")
    /\ FindLog(logs, today) # 0
    /\ logs[FindLog(logs, today)].mission = ""
    /\ get_week_stats(logs, today, 0).total >= 1
C27_WitnessInvalid ==
    /\ out = Say("daily complete", "Invalid status")
    /\ FindLog(logs, today) # 0
    /\ logs[FindLog(logs, today)].mission_status = NULL

----------------------------------------------------------------------------
(* evaluate on weeks without a mission *)

\* C28: when neither the current week nor the previous week holds a log with
\* a mission, as on the empty store, both completion rates are 0 and evaluate
\* answers should_trigger with the completion reason, whose two rates read 0.
C28_NoMissionTriggers ==
    (out.cmd = "evaluate" /\ MissionsOfWeek(0) = 0 /\ MissionsOfWeek(1) = 0) =>
        /\ get_week_stats(logs, today, 0).completion_rate.num = 0
        /\ get_week_stats(logs, today, 1).completion_rate.num = 0
        /\ out.value.should_trigger
        /\ \E i \in 1..Len(out.value.reasons) :
                out.value.reasons[i] =
                    [rule |-> "completion", this_week |-> 0, last_week |-> 0]

\* C28 witness: evaluate on the empty store: no log, no project, and the
\* completion reason alone.
C28_Witness ==
    /\ out.cmd = "evaluate"
    /\ logs = <<>> /\ projects = <<>>
    /\ out.value.should_trigger
    /\ RulesOf(out.value.reasons) = <<"completion">>

\* C28, logs without a mission: partial logs in both weeks, none with a
\* mission, and the completion reason is returned.
C28_WitnessPartialLogs ==
    /\ out.cmd = "evaluate"
    /\ Cardinality(RowsOfWeek(0)) >= 1 /\ Cardinality(RowsOfWeek(1)) >= 1
    /\ MissionsOfWeek(0) = 0 /\ MissionsOfWeek(1) = 0
    /\ HasReason("completion")

----------------------------------------------------------------------------
(* Paralysis reported at check-in *)

\* the check-in left a log of today with paralysis_signals true, and the
\* 30-day count of episodes is one more than before
EpisodeRecorded ==
    /\ \E i \in 1..Len(logs') : logs'[i].date = today /\ logs'[i].paralysis_signals
    /\ get_paralysis_rate(logs', today, ParalysisWindow).recent_episodes
            = get_paralysis_rate(logs, today, ParalysisWindow).recent_episodes + 1

\* C29: a check-in in which the user reports paralysis signals (so one on a
\* day without a log, where the question is asked) ends with a log of today
\* whose paralysis_signals is true, and the episode is counted by
\* paralysis_rate.
C29_EpisodeLogged ==
    [][ ( /\ out'.cmd = "daily checkin"
          /\ FindLog(logs, today) = 0
          /\ \E action \in {"1", "2", "3"}, called \in BOOLEAN, mission \in Missions :
                DailyCheckin(TRUE, action, called, mission) )
           => EpisodeRecorded ]_vars

\* what the code does: the episode is logged unless the user chose option 3
\* and had not made the call
C29_EpisodeLoggedUnlessNoCall ==
    [][ ( /\ out'.cmd = "daily checkin"
          /\ out'.msg # "Cannot proceed without external input"
          /\ FindLog(logs, today) = 0
          /\ \E action \in {"1", "2", "3"}, called \in BOOLEAN, mission \in Missions :
                DailyCheckin(TRUE, action, called, mission) )
           => EpisodeRecorded ]_vars

\* paralysis was reported, option 3 chosen, the call not made: the check-in
\* ended and there is no log of today
C29_EpisodeLost ==
    /\ out = Say("daily checkin", "Cannot proceed without external input")
    /\ FindLog(logs, today) = 0
C29_EpisodeKept ==
    /\ out = Say("daily checkin", "Run: ceo daily decide")
    /\ PartialToday

----------------------------------------------------------------------------
(* The logs of earlier days *)

\* the rows dated before today are in the table afterwards as they were, and
\* a row that is new is dated today
PastLogsKept ==
    /\ Len(logs') >= Len(logs)
    /\ \A i \in 1..Len(logs) : logs[i].date < today => logs'[i] = logs[i]
    /\ \A i \in (Len(logs) + 1)..Len(logs') : logs'[i].date = today

\* a mission of an earlier day whose status was not recorded that day
OpenBefore(L, t) ==
    {i \in 1..Len(L) :
        L[i].date < t /\ L[i].mission # NULL /\ L[i].mission_status = NULL}

\* C30: check-in and complete create or change only the log dated today; as
\* the date advances no command modifies a log dated before today, so a
\* mission whose status was not recorded on its own day keeps a null status:
\* it stays in its week's total and is never among the shipped.
C30_PastLogsFrozen ==
    /\ [][ PastLogsKept /\ OpenBefore(logs, today) \subseteq OpenBefore(logs', today') ]_vars
    /\ [](\A i \in OpenBefore(logs, today) :
            LET w == get_week_stats(logs, logs[i].date, 0)
            IN  w.total >= 1 /\ w.shipped < w.total)

\* C30 witness: yesterday's mission was left open, today's was completed as
\* deferred: the week counts two missions and none shipped.
C30_Witness ==
    /\ out = Say("daily complete", "deferred")
    /\ Len(logs) = 2
    /\ OpenBefore(logs, today) = {1}
    /\ logs[2].date = today /\ logs[2].mission_status = "deferred"
    /\ get_week_stats(logs, today, 0).total = 2
    /\ get_week_stats(logs, today, 0).shipped = 0

\* C30, a check-in on the second day: it made the second row and left the
\* shipped log of the first day as it was.
C30_WitnessCheckin ==
    /\ out.cmd = "daily checkin"
    /\ Len(logs) = 2
    /\ logs[1].date = today - 1 /\ logs[1].mission_status = "shipped"
    /\ logs[2].date = today /\ logs[2].mission_status = NULL

====
